---------------------------- MODULE Spec2Model ----------------------------
(***************************************************************************)
(* incipit: a host-header reverse proxy with a hot-reloaded configuration. *)
(*                                                                         *)
(* The module models                                                       *)
(*   - host resolution (drawbridge/mapping.rs, drawbridge/mod.rs),         *)
(*   - the shared Arc<RwLock<Config>> and the watcher thread (config.rs), *)
(*   - HTTP forwarding (drawbridge/mod.rs, main.rs),                       *)
(*   - the websocket tunnel (drawbridge/websocket.rs).                     *)
(*                                                                         *)
(* Specifications:                                                         *)
(*   SpecRoute  the pure function Config::route on bounded inputs          *)
(*   Spec       resolvers racing with the watcher thread on the RwLock     *)
(*   SpecHttp   concurrent HTTP requests through route_traffic / forward   *)
(*   SpecWs     one websocket upgrade through handle / serve_websocket      *)
(***************************************************************************)
EXTENDS Integers, Sequences, FiniteSets, TLC

VARIABLES
    store,      \* the Config inside Arc<RwLock<Config>>
    lock,       \* the RwLock: [readers : set of holders, writer : BOOLEAN]
    disk,       \* content of the configuration source: 0 = unreadable/malformed, i = DiskConfig(i)
    chan,       \* mpsc channel from the notify watcher to the watcher thread
    sent,       \* number of notifier events produced so far
    wpc,        \* position of watch() / the watcher thread
    loaded,     \* value returned by Config::new() in the watcher thread, not yet assigned
    res,        \* resolver tasks calling <Arc<RwLock<Config>> as HostMapping>::route
    hist,       \* ghost: every configuration value the store has held, in order
    prevStore,  \* ghost: the store as it was when the watcher took the write lock
    badReload,  \* ghost: a reload has run against an unreadable/malformed source
    call,       \* SpecRoute: the last call of Config::route and its results
    up,         \* SpecHttp: ports on which a backend is listening
    reqs,       \* SpecHttp: the request-handling tasks
    history,    \* SpecHttp: per backend port, the requests the backend recorded
    conns,      \* SpecHttp: every TcpStream::connect made by forward, in order
    run,        \* Spec: position of lib.rs run() around its call of watch()
    ws,         \* SpecWs: the websocket handler and its tunnel task
    wire,       \* SpecWs: the two websocket streams of the tunnel
    log         \* Spec: the messages watch() and the watcher thread have logged

vars == <<store, lock, disk, chan, sent, wpc, loaded, res, hist, prevStore,
          badReload, call, up, reqs, history, conns, run, ws, wire, log>>

-----------------------------------------------------------------------------
(* Bounds *)

MaxServices == 2     \* longest service list enumerated in SpecRoute
MaxEvents == 2       \* notifier events per behaviour
NumResolvers == 2    \* concurrent resolver tasks
NumRequests == 2     \* concurrent HTTP requests
MaxMsgs == 2         \* websocket messages the two peers of a tunnel send together

-----------------------------------------------------------------------------
(* Values *)

Null == "<none>"                        \* Option::None

\* Host strings.  "A.com" differs from "a.com" in letter case only and
\* "a.com:80" by an appended port.
Hosts == {"a.com", "A.com", "a.com:80", "b.com"}

P1234 == 1234
P9423 == 9423
Ports == {P1234, P9423}

DEFAULT == "0.0.0.0"
Ips == {DEFAULT, "127.0.0.1"}

ServiceConfigs == [host : Hosts, port : Ports]

RECURSIVE SeqsUpTo(_, _)
SeqsUpTo(S, n) ==
    IF n = 0 THEN {<<>>}
    ELSE LET shorter == SeqsUpTo(S, n - 1)
         IN  shorter \cup {Append(s, x) : s \in {t \in shorter : Len(t) = n - 1}, x \in S}

-----------------------------------------------------------------------------
(* drawbridge/mapping.rs *)

Target(tag, ip, port) == [tag |-> tag, ip |-> ip, port |-> port]
Socket(ip, port) == Target("Socket", ip, port)
Incipit == Target("Incipit", Null, 0)
Unknown == Target("Unknown", Null, 0)

\* Target::port
TargetPort(port) == Socket("0.0.0.0", port)

\* Config::addr
Addr(cfg) == IF cfg.addr = Null THEN DEFAULT ELSE cfg.addr

\* `ih == host`, `service.host == *host`: String equality
HostEqFold(a, b) ==
    LET Fold(h) == IF h \in {"A.com", "a.com:80"} THEN "a.com" ELSE h
    IN  Fold(a) = Fold(b)
HostEq(a, b) == a = b

\* Iterator::find over the service list: index of the first match, 0 for None
RECURSIVE FindFrom(_, _, _)
FindFrom(services, host, i) ==
    IF i > Len(services) THEN 0
    ELSE IF HostEq(services[i].host, host) THEN i
    ELSE FindFrom(services, host, i + 1)

RECURSIVE RFindFrom(_, _, _)
RFindFrom(services, host, i) ==
    IF i < 1 THEN 0
    ELSE IF HostEq(services[i].host, host) THEN i
    ELSE RFindFrom(services, host, i - 1)

FindLast(services, host) == RFindFrom(services, host, Len(services))
Find(services, host) == FindFrom(services, host, 1)

\* self.incipit_host.as_ref().map(|ih| ih == host).unwrap_or(false)
IsIncipitHost(incipit_host, host) ==
    IF incipit_host = Null THEN FALSE ELSE HostEq(incipit_host, host)

\* <Config as HostMapping>::route, from the fields as they were read
RouteFieldsServicesFirst(incipit_host, addr, services, host) ==
    LET i == Find(services, host)
    IN  IF i # 0 THEN Socket(addr, services[i].port)
        ELSE IF IsIncipitHost(incipit_host, host) THEN Incipit
        ELSE Unknown
RouteFields(incipit_host, addr, services, host) ==
    IF IsIncipitHost(incipit_host, host) THEN Incipit
    ELSE LET i == Find(services, host)
         IN  IF i # 0 THEN Socket(addr, services[i].port)
             ELSE Unknown

Route(cfg, host) == RouteFields(cfg.incipit_host, Addr(cfg), cfg.services, host)

\* drawbridge/test.rs example_mapping, over the given service list
ExampleMapping(services, host) ==
    LET i == Find(services, host)
    IN  IF i # 0 THEN TargetPort(services[i].port) ELSE Unknown

(* drawbridge/mod.rs, service/config.rs *)

\* Option<SocketAddr>
SomeAddr(ip, port) == [some |-> TRUE, ip |-> ip, port |-> port]
NoneAddr == [some |-> FALSE, ip |-> Null, port |-> 0]

\* service::config::RuntimeConfig::addr
ServiceAddr(service) == SomeAddr("0.0.0.0", service.port)

\* <RuntimeConfig as HostMapping>::route
RuntimeRoute(cfg, host) ==
    LET i == Find(cfg.services, host)
    IN  IF i = 0 THEN NoneAddr ELSE ServiceAddr(cfg.services[i])


-----------------------------------------------------------------------------
(* Configurations *)

Config(file_path, incipit_host, addr, services) ==
    [file_path |-> file_path, incipit_host |-> incipit_host,
     addr |-> addr, services |-> services]

\* Every configuration with at most MaxServices services (SpecRoute)
AllConfigs ==
    {Config("incipit.toml", ih, a, ss) :
        ih \in Hosts \cup {Null}, a \in Ips \cup {Null},
        ss \in SeqsUpTo(ServiceConfigs, MaxServices)}

-----------------------------------------------------------------------------
(* Values of the variables a specification does not use *)

NoCall == [host |-> Null, target |-> Unknown, mapped |-> Unknown, runtime |-> NoneAddr]
IdleLock == [readers |-> {}, writer |-> FALSE]

-----------------------------------------------------------------------------
(* SpecRoute: Config::route as a function of the configuration and the host *)

InitRoute ==
    /\ store \in AllConfigs
    /\ lock = IdleLock
    /\ disk = 0
    /\ chan = <<>>
    /\ sent = 0
    /\ wpc = "off"
    /\ loaded = <<>>
    /\ res = <<>>
    /\ hist = <<>>
    /\ prevStore = store
    /\ badReload = FALSE
    /\ call = NoCall
    /\ up = {}
    /\ reqs = <<>>
    /\ history = <<>>
    /\ conns = <<>>
    /\ run = Null
    /\ ws = <<>>
    /\ wire = <<>>
    /\ log = <<>>

\* config.route(host) and example_mapping().route(host), as in
\* mapping_from_config, and the route of drawbridge/mod.rs on the same services
RouteCall(host) ==
    /\ call' = [host |-> host,
                target |-> Route(store, host),
                mapped |-> ExampleMapping(store.services, host),
                runtime |-> RuntimeRoute(store, host)]
    /\ UNCHANGED <<store, lock, disk, chan, sent, wpc, loaded, res, hist,
                   prevStore, badReload, up, reqs, history, conns, run, ws, wire,
                   log>>

NextRoute == \E host \in Hosts : RouteCall(host)

SpecRoute == InitRoute /\ [][NextRoute]_vars

Called == call.host # Null

ServiceHosts(cfg) == {cfg.services[i].host : i \in 1..Len(cfg.services)}

(* C4: for every configuration, whatever its bind address, a host that is not
   the dashboard host and is the host of a service entry resolves to
   Socket(0.0.0.0, port of that entry), which is what the function-backed
   mapping Target::port(entry.port) returns. *)
C4_BackendIsWildcardPort ==
    (Called /\ ~IsIncipitHost(store.incipit_host, call.host)
            /\ call.host \in ServiceHosts(store))
        => /\ call.target.tag = "Socket"
           /\ call.target.ip = "0.0.0.0"
           /\ \E i \in 1..Len(store.services) :
                 /\ store.services[i].host = call.host
                 /\ call.target.port = store.services[i].port
           /\ call.target = call.mapped

(* C5: route returns Incipit iff a dashboard host is configured and the host
   equals it exactly; the dashboard check wins over a service entry with the
   same host. *)
C5_DashboardIff ==
    Called =>
        (call.target = Incipit
            <=> (store.incipit_host # Null /\ store.incipit_host = call.host))

C5_Witness ==
    /\ Called
    /\ store.incipit_host = call.host
    /\ call.host \in ServiceHosts(store)
    /\ call.target = Incipit

\* The host with letter case folded and an appended ":port" removed
Normalized(h) == IF h \in {"A.com", "a.com:80"} THEN "a.com" ELSE h

Configured(cfg) ==
    ServiceHosts(cfg) \cup (IF cfg.incipit_host = Null THEN {} ELSE {cfg.incipit_host})

(* C6: route returns Unknown exactly when the host equals, as an exact string,
   neither the dashboard host nor the host of any service entry; a host that
   differs from a configured one only in letter case or by an appended port
   is not matched. *)
C6_UnknownIffNoExactMatch ==
    Called => (call.target = Unknown <=> call.host \notin Configured(store))

C6_Witness ==
    /\ Called
    /\ call.host \notin Configured(store)
    /\ \E h \in Configured(store) : h # call.host /\ Normalized(h) = Normalized(call.host)
    /\ call.target = Unknown

\* i is the lowest index of an entry of the store whose host is the argument
FirstEntryFor(i, host) ==
    /\ i \in 1..Len(store.services)
    /\ store.services[i].host = host
    /\ \A j \in 1..(i - 1) : store.services[j].host # host

(* C7: with several entries of the same host, the port returned is that of
   the lowest-index entry whose host equals the argument, in the route of
   mapping.rs and in the route of mod.rs. *)
C7_FirstMatchWins ==
    /\ (Called /\ call.target.tag = "Socket") =>
          \E i \in 1..Len(store.services) :
              FirstEntryFor(i, call.host) /\ call.target.port = store.services[i].port
    /\ (Called /\ call.runtime.some) =>
          \E i \in 1..Len(store.services) :
              FirstEntryFor(i, call.host) /\ call.runtime.port = store.services[i].port

C7_Witness ==
    /\ Called
    /\ call.target.tag = "Socket"
    /\ \E i, j \in 1..Len(store.services) :
          /\ i < j
          /\ store.services[i].host = call.host
          /\ store.services[j].host = call.host
          /\ store.services[i].port # store.services[j].port


-----------------------------------------------------------------------------
(* Spec: the shared Arc<RwLock<Config>>, the watcher thread of config.rs and
   resolver tasks calling route on the shared configuration *)

\* What the configuration source can hold.  0 is a source Config::new() fails
\* on (unreadable or malformed).  The two configurations differ in every
\* field, so a Target computed from fields of both is the Target of neither.
DiskContents == {0, 1, 2}
DiskConfig(d) ==
    IF d = 1
    THEN Config("incipit.toml", "a.com", Null, <<[host |-> "b.com", port |-> P1234]>>)
    ELSE Config("incipit.toml", "b.com", "127.0.0.1", <<[host |-> "a.com", port |-> P9423]>>)

\* Config::default()
DefaultConfig == Config(Null, Null, Null, <<>>)

\* eyre::Result<Config>
Ok(cfg) == [ok |-> TRUE, value |-> <<cfg>>]
Err == [ok |-> FALSE, value |-> <<>>]

\* Config::new(): the load pipeline over the current source
ConfigNewOrDefault(d) == IF d = 0 THEN Ok(DefaultConfig) ELSE Ok(DiskConfig(d))
ConfigNew(d) == IF d = 0 THEN Err ELSE Ok(DiskConfig(d))

\* RwLock::read / RwLock::write succeed without blocking
ReadLockableAlways(l) == TRUE
ReadLockable(l) == ~l.writer
WriteLockable(l) == ~l.writer /\ l.readers = {}

\* Dropping a guard
DropReadGuardKept(l, r) == l
DropReadGuard(l, r) == [l EXCEPT !.readers = @ \ {r}]
DropWriteGuard(l) == [l EXCEPT !.writer = FALSE]

\* `*config = value` through the write guard
AssignedNothing(old, new) == old
Assigned(old, new) == new

Resolvers == 1..NumResolvers
ResolveHosts == {"a.com", "b.com"}

IdleRes ==
    [pc |-> "idle", host |-> Null, ih |-> Null, target |-> Unknown,
     startVer |-> 0, seenVer |-> 0, afterFail |-> FALSE]

Init ==
    /\ store \in {DiskConfig(1), [DiskConfig(1) EXCEPT !.file_path = Null]}
    /\ lock = IdleLock
    /\ disk = 1
    /\ chan = <<>>
    /\ sent = 0
    /\ wpc = "watch"
    /\ loaded = <<>>
    /\ res = [r \in Resolvers |-> IdleRes]
    /\ hist = <<store>>
    /\ prevStore = store
    /\ badReload = FALSE
    /\ call = NoCall
    /\ up = {}
    /\ reqs = <<>>
    /\ history = <<>>
    /\ conns = <<>>
    /\ run = "watch"
    /\ ws = <<>>
    /\ wire = <<>>
    /\ log = <<>>

unusedBySpec == <<call, up, reqs, history, conns, ws, wire>>

\* The watcher thread has returned
Terminated == wpc \in {"failed", "errored"}
\* The notify watcher exists and produces events
Notifying == wpc \notin {"watch", "off"}

(* config::watch up to the spawn of the thread *)
\* tracing::warn! / tracing::info!: the message is added to the log
Logged(l, message) == Append(l, message)

Watch ==
    /\ wpc = "watch"
    /\ ReadLockable(lock)
    /\ wpc' = IF store.file_path = Null THEN "off" ELSE "recv"
    /\ log' = Logged(log, IF store.file_path = Null THEN "Not watching config"
                          ELSE "Watching for changes")
    /\ UNCHANGED <<store, lock, disk, chan, sent, loaded, res, hist, prevStore,
                   badReload, run, unusedBySpec>>

(* run: let _watcher = config::watch(config)?.unwrap(); then axum::serve.
   watch returned Ok(None) or Ok(Some(watcher)); unwrap panics on None *)
RunUnwrap ==
    /\ run = "watch"
    /\ wpc # "watch"
    /\ run' = IF wpc = "off" THEN "panicked" ELSE "serve"
    /\ UNCHANGED <<store, lock, disk, chan, sent, wpc, loaded, res, hist,
                   prevStore, badReload, log, unusedBySpec>>

(* The environment: the tracked file is written, another file of the
   directory changes, the notifier reports an error *)
WriteFile(d) ==
    /\ sent < MaxEvents
    /\ Notifying
    /\ disk' = d
    /\ chan' = Append(chan, "match")   \* never received once the thread has returned
    /\ sent' = sent + 1
    /\ UNCHANGED <<store, lock, wpc, loaded, res, hist, prevStore, badReload,
                   run, log, unusedBySpec>>

OtherFile ==
    /\ sent < MaxEvents
    /\ Notifying
    /\ chan' = Append(chan, "other")
    /\ sent' = sent + 1
    /\ UNCHANGED <<store, lock, disk, wpc, loaded, res, hist, prevStore,
                   badReload, run, log, unusedBySpec>>

NotifyError ==
    /\ sent < MaxEvents
    /\ Notifying
    /\ chan' = Append(chan, "error")
    /\ sent' = sent + 1
    /\ UNCHANGED <<store, lock, disk, wpc, loaded, res, hist, prevStore,
                   badReload, run, log, unusedBySpec>>

\* event.paths.contains(&config_path)
PathsContainAny(event) == TRUE
PathsContain(event) == event = "match"

(* for event in receiver.into_iter() { if !event?.paths.contains(..) { continue } *)
WatcherRecv ==
    /\ wpc = "recv"
    /\ chan # <<>>
    /\ chan' = Tail(chan)
    /\ wpc' = CASE Head(chan) = "error" -> "errored"
                [] ~PathsContain(Head(chan)) -> "recv"
                [] OTHER -> "lock"
    /\ UNCHANGED <<store, lock, disk, sent, loaded, res, hist, prevStore,
                   badReload, run, log, unusedBySpec>>

(* let mut config = config.write().expect(..) *)
WatcherLock ==
    /\ wpc = "lock"
    /\ WriteLockable(lock)
    /\ lock' = [lock EXCEPT !.writer = TRUE]
    /\ prevStore' = store
    /\ wpc' = "load"
    /\ UNCHANGED <<store, disk, chan, sent, loaded, res, hist, badReload,
                   run, log, unusedBySpec>>

(* Config::new().wrap_err(..)? with the write guard held: on Err the closure
   returns, which drops the guard and ends the thread *)
WatcherLoad ==
    /\ wpc = "load"
    /\ badReload' = (badReload \/ disk = 0)
    /\ IF ~ConfigNew(disk).ok
       THEN /\ wpc' = "failed"
            /\ lock' = DropWriteGuard(lock)
            /\ UNCHANGED loaded
       ELSE /\ wpc' = "assign"
            /\ loaded' = ConfigNew(disk).value
            /\ UNCHANGED lock
    /\ UNCHANGED <<store, disk, chan, sent, res, hist, prevStore, run, log, unusedBySpec>>

(* *config = <the loaded value> *)
WatcherAssign ==
    /\ wpc = "assign"
    /\ store' = Assigned(store, loaded[1])
    /\ hist' = Append(hist, loaded[1])
    /\ loaded' = <<>>
    /\ wpc' = "log"
    /\ UNCHANGED <<lock, disk, chan, sent, res, prevStore, badReload, run, log, unusedBySpec>>

(* tracing::info!("Reloaded config"), then the guard goes out of scope *)
WatcherRelease ==
    /\ wpc = "log"
    /\ lock' = DropWriteGuard(lock)
    /\ wpc' = "recv"
    /\ log' = Logged(log, "Reloaded config")
    /\ UNCHANGED <<store, disk, chan, sent, loaded, res, hist, prevStore,
                   badReload, run, unusedBySpec>>

resolverFrame == <<disk, chan, sent, wpc, loaded, hist, prevStore, badReload,
                   run, log, unusedBySpec>>

(* A task calls route(host) on the shared configuration *)
ResolveStart(r, host) ==
    /\ run = "serve"
    /\ res[r].pc = "idle"
    /\ res' = [res EXCEPT ![r] = [IdleRes EXCEPT !.pc = "read", !.host = host,
                                                 !.startVer = Len(hist),
                                                 !.afterFail = badReload]]
    /\ UNCHANGED <<store, lock, resolverFrame>>

(* let config = self.read().expect(..) *)
ResolveRead(r) ==
    /\ res[r].pc = "read"
    /\ ReadLockable(lock)
    /\ lock' = [lock EXCEPT !.readers = @ \cup {r}]
    /\ res' = [res EXCEPT ![r].pc = "incipit_host"]
    /\ UNCHANGED <<store, resolverFrame>>

(* if self.incipit_host ... == host { Target::Incipit } *)
ResolveIncipitHost(r) ==
    /\ res[r].pc = "incipit_host"
    /\ res' = [res EXCEPT
                 ![r].ih = store.incipit_host,
                 ![r].seenVer = Len(hist),
                 ![r].target = IF IsIncipitHost(store.incipit_host, res[r].host)
                               THEN Incipit ELSE Unknown,
                 ![r].pc = IF IsIncipitHost(store.incipit_host, res[r].host)
                           THEN "return" ELSE "services"]
    /\ UNCHANGED <<store, lock, resolverFrame>>

(* else if let Some(service) = self.services.iter().find(..) { .. } else { Unknown } *)
ResolveServices(r) ==
    /\ res[r].pc = "services"
    /\ res' = [res EXCEPT
                 ![r].target = RouteFields(res[r].ih, Addr(store), store.services,
                                           res[r].host),
                 ![r].seenVer = Len(hist),
                 ![r].pc = "return"]
    /\ UNCHANGED <<store, lock, resolverFrame>>

(* route returns its Target (res[r].target): the read guard is dropped *)
ResolveReturn(r) ==
    /\ res[r].pc = "return"
    /\ lock' = DropReadGuard(lock, r)
    /\ res' = [res EXCEPT ![r] = IdleRes]
    /\ UNCHANGED <<store, resolverFrame>>

Next ==
    \/ Watch
    \/ RunUnwrap
    \/ \E d \in DiskContents : WriteFile(d)
    \/ OtherFile
    \/ NotifyError
    \/ WatcherRecv
    \/ WatcherLock
    \/ WatcherLoad
    \/ WatcherAssign
    \/ WatcherRelease
    \/ \E r \in Resolvers, host \in ResolveHosts : ResolveStart(r, host)
    \/ \E r \in Resolvers : ResolveRead(r)
    \/ \E r \in Resolvers : ResolveIncipitHost(r)
    \/ \E r \in Resolvers : ResolveServices(r)
    \/ \E r \in Resolvers : ResolveReturn(r)

Spec == Init /\ [][Next]_vars

Returning(r) == res[r].pc = "return"

(* C1: whatever the interleaving of resolve calls and reloads, the Target a
   resolve call returns is the Target of one whole configuration that was in
   the store at some point during the call, and the field it has read so far
   belongs to the configuration the store holds; never a mix of two. *)
C1_ResolveSeesOneConfig ==
    \A r \in Resolvers :
        /\ res[r].pc = "services" => res[r].ih = store.incipit_host
        /\ Returning(r) =>
              \E v \in res[r].startVer..res[r].seenVer :
                  res[r].target = Route(hist[v], res[r].host)

\* A reload was installed between the start of a call and its read, and the
\* call returns what the new configuration gives, not what the old one gave.
C1_Witness ==
    \E r \in Resolvers :
        /\ Returning(r)
        /\ res[r].seenVer > res[r].startVer
        /\ res[r].target = Route(hist[res[r].seenVer], res[r].host)
        /\ res[r].target # Route(hist[res[r].startVer], res[r].host)

(* C2: after a reload that failed (the source could not be read or parsed)
   the store holds exactly the configuration it held before the event, the
   lock is not left held, and every resolve call started afterwards returns
   what that configuration gives. *)
C2_FailedReloadKeepsConfig ==
    badReload =>
        /\ store = prevStore
        /\ store \in {hist[v] : v \in 1..Len(hist)}
        /\ ReadLockable(lock)
        /\ \A r \in Resolvers :
              (Returning(r) /\ res[r].afterFail) =>
                  res[r].target = Route(prevStore, res[r].host)

\* A reload has failed after an earlier one had succeeded, and a resolve call
\* started after the failure returns a backend of the retained configuration.
C2_Witness ==
    /\ badReload
    /\ wpc = "failed"
    /\ Len(hist) > 1
    /\ \E r \in Resolvers :
          /\ Returning(r)
          /\ res[r].afterFail
          /\ res[r].target.tag = "Socket"

(* C3: while watching is enabled, a change event for the tracked file whose
   load would succeed is never left with no watcher thread to receive it,
   also after an earlier failed reload or a notifier error. *)
C3_ChangeEventsStayServed ==
    (disk # 0 /\ \E i \in 1..Len(chan) : chan[i] = "match") => ~Terminated

(* C8: a resolve call returns what the configuration in the store at the time
   of its read gives, and that configuration is never older than the one
   installed when the call started; the store always holds the configuration
   installed last. *)
C8_ResolveSeesLatestInstall ==
    /\ store = hist[Len(hist)]
    /\ \A r \in Resolvers :
          Returning(r) =>
              /\ res[r].startVer <= res[r].seenVer
              /\ res[r].seenVer <= Len(hist)
              /\ res[r].target = Route(hist[res[r].seenVer], res[r].host)

\* A call started after the second configuration was installed returns what
\* it gives, which is not what the first configuration gave.
C8_Witness ==
    \E r \in Resolvers :
        /\ Returning(r)
        /\ res[r].startVer = 2
        /\ res[r].target = Route(hist[2], res[r].host)
        /\ res[r].target # Route(hist[1], res[r].host)

-----------------------------------------------------------------------------
(* SpecHttp: HTTP requests through the middleware of main.rs, route_traffic
   and forward of drawbridge/mod.rs, to backends that record what they get *)

\* Inbound requests: method, path, query, headers (custom ones and Cookie), body
Request(method, path, query, headers, body) ==
    [method |-> method, path |-> path, query |-> query,
     headers |-> headers, body |-> body]

Requests ==
    { Request("GET", "/", "", {<<"Accept", "application/json">>}, ""),
      Request("GET", "/this/is/a/path", "",
              {<<"Accept", "application/json">>, <<"User-Agent", "test">>,
               <<"Referer", "http://example.com">>,
               <<"Cookie", "cookie1=1; cookie2=2">>}, ""),
      Request("POST", "//this/is/a/path", "a=1&b=2",
              {<<"Cookie", "cookie1=1">>, <<"X-Custom", "v">>}, "payload") }

RequestHosts == {"a.com", "b.com", "A.com"}

Response(status, body) == [status |-> status, body |-> body]

\* main.rs: (StatusCode::INTERNAL_SERVER_ERROR, "500 - Incipit error")
IncipitError == Response(500, <<"500 - Incipit error">>)
NoResponse == Response(0, <<>>)

\* Error values of route_traffic and forward, as the pieces of their text
NoError == <<>>
UnknownHostError(host) == <<"Unknown host ", host>>
ConnectError == <<"Connection refused (os error 111)">>

\* main.rs, Err(error) arm of the middleware: the error is logged with
\* tracing::warn! and the response is the fixed one
ErrorResponse(error) == IncipitError

\* main.rs, the middleware's match on the result of route_traffic: both arms
\* give a response, so the server goes on serving whatever the result
ServingAfterPropagated(error, serving) ==
    IF error = NoError THEN serving ELSE "failed"
ServingAfter(error, serving) == serving

\* The handlers of the test services (util/test/service.rs)
Handler(port, path) ==
    IF port = P1234 THEN Response(200, <<"Hello world">>)
    ELSE Response(200, <<"Hello path: ", path>>)

\* What sender.send_request(request) writes to the connection: the request
\* as it is, once
SendRequestRetried(request) == <<request, request>>
SendRequest(request) == <<request>>

\* forward passes `request` on as it received it
ForwardedWithoutCookie(request) ==
    [request EXCEPT !.headers = {h \in @ : h[1] # "Cookie"}]
Forwarded(request) == request

\* hyper Response -> axum Response
IntoResponse(response) == response

\* TcpStream::connect(addr) in forward: the task opens a stream of its own.
\* conns[i] lists the connects of task i, with whether a backend accepted.
OpenConnectionPooled(cs, i, port, ok) ==
    IF \E j \in DOMAIN cs : \E k \in 1..Len(cs[j]) :
           cs[j][k].port = port /\ cs[j][k].ok
    THEN cs
    ELSE [cs EXCEPT ![i] = Append(@, [port |-> port, ok |-> ok])]
OpenConnection(cs, i, port, ok) ==
    [cs EXCEPT ![i] = Append(@, [port |-> port, ok |-> ok])]

HttpConfigs ==
    { Config("incipit.toml", Null, Null,
             <<[host |-> "a.com", port |-> P1234], [host |-> "b.com", port |-> P9423]>>),
      Config("incipit.toml", Null, "127.0.0.1",
             <<[host |-> "b.com", port |-> P1234], [host |-> "a.com", port |-> P9423]>>) }

ReqIds == 1..NumRequests

NewReq ==
    [pc |-> "new", host |-> Null, request |-> Request("", "", "", {}, ""),
     addr |-> NoneAddr, response |-> NoResponse, error |-> NoError]

InitHttp ==
    /\ store \in HttpConfigs
    /\ lock = IdleLock
    /\ disk = 0
    /\ chan = <<>>
    /\ sent = 0
    /\ wpc = "off"
    /\ loaded = <<>>
    /\ res = <<>>
    /\ hist = <<store>>
    /\ prevStore = store
    /\ badReload = FALSE
    /\ call = NoCall
    /\ up \in SUBSET Ports
    /\ reqs = [i \in ReqIds |-> NewReq]
    /\ history = [p \in Ports |-> <<>>]
    /\ conns = [i \in ReqIds |-> <<>>]
    /\ run = "serve"
    /\ ws = <<>>
    /\ wire = <<>>
    /\ log = <<>>

unusedByHttp == <<store, disk, chan, sent, wpc, loaded, res, hist,
                  prevStore, badReload, call, up, ws, wire, log>>

(* A client sends a request with the given Host header *)
Arrive(i, host, request) ==
    /\ run = "serve"
    /\ reqs[i].pc = "new"
    /\ reqs' = [reqs EXCEPT ![i] = [NewReq EXCEPT !.pc = "route", !.host = host,
                                                 !.request = request]]
    /\ UNCHANGED <<history, conns, run, lock, unusedByHttp>>

(* route_traffic: match mapping.route(&host); the read guard of
   <Arc<RwLock<RuntimeConfig>>>::route is dropped when route returns.
   None => bail!, which the middleware turns into the 500 response *)
RouteTraffic(i) ==
    /\ reqs[i].pc = "route"
    /\ ReadLockable(lock)
    /\ LET addr == RuntimeRoute(store, reqs[i].host)
       IN  reqs' = [reqs EXCEPT
                      ![i].addr = addr,
                      ![i].pc = IF addr.some THEN "connect" ELSE "done",
                      ![i].error = IF addr.some THEN NoError
                                   ELSE UnknownHostError(reqs[i].host),
                      ![i].response = IF addr.some THEN NoResponse
                                      ELSE ErrorResponse(UnknownHostError(reqs[i].host))]
    /\ lock' = DropReadGuard([lock EXCEPT !.readers = @ \cup {i}], i)
    /\ run' = ServingAfter(reqs'[i].error, run)
    /\ UNCHANGED <<history, conns, unusedByHttp>>

(* forward: TcpStream::connect(addr).await? *)
Connect(i) ==
    /\ reqs[i].pc = "connect"
    /\ reqs' = [reqs EXCEPT
                  ![i].pc = IF reqs[i].addr.port \in up THEN "handshake" ELSE "done",
                  ![i].error = IF reqs[i].addr.port \in up THEN NoError
                               ELSE ConnectError,
                  ![i].response = IF reqs[i].addr.port \in up THEN NoResponse
                                  ELSE ErrorResponse(ConnectError)]
    /\ conns' = OpenConnection(conns, i, reqs[i].addr.port,
                                reqs[i].addr.port \in up)
    /\ run' = ServingAfter(reqs'[i].error, run)
    /\ UNCHANGED <<history, lock, unusedByHttp>>

(* forward: http1::handshake(io).await?, then the connection task is spawned *)
Handshake(i) ==
    /\ reqs[i].pc = "handshake"
    /\ reqs' = [reqs EXCEPT ![i].pc = "send"]
    /\ UNCHANGED <<history, conns, run, lock, unusedByHttp>>

(* forward: sender.send_request(request); the backend runs its handler on
   every request it reads and pushes (request, response) to its history *)
Send(i) ==
    /\ reqs[i].pc = "send"
    /\ LET p == reqs[i].addr.port
           got == SendRequest(Forwarded(reqs[i].request))
           entries == [k \in 1..Len(got) |->
                         [id |-> i, request |-> got[k],
                          response |-> Handler(p, got[k].path)]]
       IN  history' = [history EXCEPT ![p] = @ \o entries]
    /\ reqs' = [reqs EXCEPT ![i].pc = "await"]
    /\ UNCHANGED <<conns, run, lock, unusedByHttp>>

(* forward: Ok(<the upstream response>.into_response()), returned by the
   middleware as it is *)
Respond(i) ==
    /\ reqs[i].pc = "await"
    /\ \E k \in 1..Len(history[reqs[i].addr.port]) :
          /\ history[reqs[i].addr.port][k].id = i
          /\ reqs' = [reqs EXCEPT
                        ![i].pc = "done",
                        ![i].response =
                            IntoResponse(history[reqs[i].addr.port][k].response)]
    /\ UNCHANGED <<history, conns, run, lock, unusedByHttp>>

NextHttp ==
    \/ \E i \in ReqIds, host \in RequestHosts, request \in Requests :
          Arrive(i, host, request)
    \/ \E i \in ReqIds : RouteTraffic(i)
    \/ \E i \in ReqIds : Connect(i)
    \/ \E i \in ReqIds : Handshake(i)
    \/ \E i \in ReqIds : Send(i)
    \/ \E i \in ReqIds : Respond(i)

SpecHttp == InitHttp /\ [][NextHttp]_vars

\* The entries backend p recorded for request i
Deliveries(i, p) == {k \in 1..Len(history[p]) : history[p][k].id = i}

\* The ports of the service entries configured for the host
ConfiguredPorts(host) ==
    {store.services[k].port :
        k \in {j \in 1..Len(store.services) : store.services[j].host = host}}

\* The request's Host header is the host of a backend that is listening
ToReachableBackend(i) ==
    /\ reqs[i].pc # "new"
    /\ ConfiguredPorts(reqs[i].host) # {}
    /\ ConfiguredPorts(reqs[i].host) \subseteq up

AllDone == \A i \in ReqIds : reqs[i].pc = "done"

(* C9: every request whose Host header is the host of a reachable backend is
   delivered to that backend and to no other, at most once while in flight
   and exactly once when complete; when all requests are complete each
   backend has received as many requests as were sent for it. *)
C9_DeliveredExactlyOnce ==
    /\ \A i \in ReqIds, p \in Ports :
          /\ Cardinality(Deliveries(i, p)) <= 1
          /\ Deliveries(i, p) # {} => p \in ConfiguredPorts(reqs[i].host)
    /\ \A i \in ReqIds :
          (ToReachableBackend(i) /\ reqs[i].pc = "done") =>
              \A p \in ConfiguredPorts(reqs[i].host) :
                  Cardinality(Deliveries(i, p)) = 1
    /\ (AllDone /\ \A i \in ReqIds : ToReachableBackend(i)) =>
          \A p \in Ports :
              Len(history[p]) =
                  Cardinality({i \in ReqIds : p \in ConfiguredPorts(reqs[i].host)})

\* All requests are complete and one backend has received several of them.
C9_Witness ==
    /\ AllDone
    /\ \A i \in ReqIds : ToReachableBackend(i)
    /\ \E p \in Ports : Len(history[p]) >= 2

(* C10: the request a backend receives has the method, path, query, headers
   and body of the inbound request, and the response returned to the client
   is the response the backend gave to it. *)
C10_ForwardedVerbatim ==
    /\ \A p \in Ports : \A k \in 1..Len(history[p]) :
          LET e == history[p][k]
          IN  /\ e.request.method = reqs[e.id].request.method
              /\ e.request.path = reqs[e.id].request.path
              /\ e.request.query = reqs[e.id].request.query
              /\ e.request.headers = reqs[e.id].request.headers
              /\ e.request.body = reqs[e.id].request.body
              /\ reqs[e.id].pc = "done" => reqs[e.id].response = e.response
    /\ \A i \in ReqIds :
          (reqs[i].pc = "done" /\ reqs[i].response # IncipitError) =>
              \E p \in Ports : Deliveries(i, p) # {}

\* A request with a Cookie header, a query and a body has been answered with
\* the response of the backend that received it.
C10_Witness ==
    \E i \in ReqIds, p \in Ports :
        /\ reqs[i].pc = "done"
        /\ Deliveries(i, p) # {}
        /\ reqs[i].request.body # ""
        /\ reqs[i].request.query # ""
        /\ \E h \in reqs[i].request.headers : h[1] = "Cookie"
        /\ reqs[i].response = Handler(p, reqs[i].request.path)

(* C11: a request whose Host header has no service entry is answered with
   status 404. *)
C11_UnknownHostIs404 ==
    \A i \in ReqIds :
        (reqs[i].pc = "done" /\ ConfiguredPorts(reqs[i].host) = {}) =>
            reqs[i].response.status = 404

\* The request has passed TcpStream::connect
Connected(i) == reqs[i].pc \in {"handshake", "send", "await"}

(* C12: a request whose host has no service entry makes no outbound connect;
   a request routed to a backend makes one connect of its own, to the port
   configured for its host, and never more than one. *)
C12_OneConnectionPerRequest ==
    \A i \in ReqIds :
        /\ (reqs[i].pc # "new" /\ ConfiguredPorts(reqs[i].host) = {}) =>
               conns[i] = <<>>
        /\ Len(conns[i]) <= 1
        /\ \A k \in 1..Len(conns[i]) :
               conns[i][k].port \in ConfiguredPorts(reqs[i].host)
        /\ Connected(i) => Len(conns[i]) = 1 /\ conns[i][1].ok
        /\ (reqs[i].pc = "done" /\ ConfiguredPorts(reqs[i].host) # {}) =>
               Len(conns[i]) = 1

\* Two requests for the same listening backend are complete, each with the
\* connection it opened, and the backend has recorded both.
C12_Witness ==
    \E i, j \in ReqIds, p \in Ports :
        /\ i # j
        /\ reqs[i].pc = "done" /\ reqs[j].pc = "done"
        /\ conns[i] = <<[port |-> p, ok |-> TRUE]>>
        /\ conns[j] = <<[port |-> p, ok |-> TRUE]>>
        /\ Deliveries(i, p) # {} /\ Deliveries(j, p) # {}

\* The pieces of the error's text all occur in the response body
BodyIncludes(body, error) ==
    \A k \in 1..Len(error) : \E j \in 1..Len(body) : body[j] = error[k]

(* C13: a request whose connect to the backend fails is answered with status
   500 and a body that includes the detail of the error. *)
C13_ConnectFailureIs500WithDetail ==
    \A i \in ReqIds :
        (reqs[i].pc = "done" /\ reqs[i].error = ConnectError) =>
            /\ reqs[i].response.status = 500
            /\ BodyIncludes(reqs[i].response.body, reqs[i].error)

-----------------------------------------------------------------------------
(* SpecWs: a request through websocket::handle and the tunnel task
   serve_websocket it spawns, with the client and the backend as peers *)

\* The headers of the inbound request that the upgrade looks at
ConnectionUpgrade == "connection: upgrade"
UpgradeWebsocket == "upgrade: websocket"
SecWebSocketKey == "sec-websocket-key, sec-websocket-version: 13"
WsHeaderSets ==
    { {}, {ConnectionUpgrade}, {ConnectionUpgrade, UpgradeWebsocket},
      {ConnectionUpgrade, UpgradeWebsocket, SecWebSocketKey} }

\* Request targets as sequences of characters; <<>> is a target without path
\* (path_and_query() is None)
WsUris ==
    { <<>>, <<"/">>, <<"/", "c", "?", "x">>, <<"/", "/", "c">> }

WsHosts == {"a.com", "b.com", "A.com"}

\* hyper_tungstenite::is_upgrade_request
IsUpgradeRequestAnyConnection(headers) == ConnectionUpgrade \in headers
IsUpgradeRequest(headers) ==
    ConnectionUpgrade \in headers /\ UpgradeWebsocket \in headers

\* hyper_tungstenite::upgrade(request, None) is Ok
UpgradeOk(headers) == SecWebSocketKey \in headers

\* Uri::path_and_query as an Option
PathAndQuery(uri) == IF uri = <<>> THEN <<>> ELSE <<uri>>

\* str::trim_start_matches(c)
RECURSIVE TrimStartMatches(_, _)
TrimStartMatches(str, c) ==
    IF str # <<>> /\ Head(str) = c THEN TrimStartMatches(Tail(str), c) ELSE str

\* match target { Target::Socket(addr) => ..., _ => return Err(..) }
ValidTargetNotUnknown(target) == target.tag # "Unknown"
ValidTarget(target) == target.tag = "Socket"

\* format!("ws://{addr}/{path}") with
\* path = path_and_query().map(|v| v.as_str().trim_start_matches('/')).unwrap_or("")
UpstreamUrl(target, uri) ==
    LET pq == PathAndQuery(uri)
        path == IF pq = <<>> THEN <<>> ELSE TrimStartMatches(pq[1], "/")
    IN  [scheme |-> "ws", ip |-> target.ip, port |-> target.port,
         path_and_query |-> <<"/">> \o path]

\* The kinds of message a tungstenite stream yields
Kinds == {"text", "binary", "close", "ping", "pong"}
Sides == {"client", "target"}
Other(side) == IF side = "client" THEN "target" ELSE "client"

\* sink.send(message): what is written to the other stream
RelayedDataOnly(message) ==
    IF message.kind \in {"text", "binary"} THEN <<message>> ELSE <<>>
Relayed(message) == <<message>>

\* Dropping a stream closes its connection
DroppedLeaked(leg) == leg
Dropped(leg) == IF leg = "open" THEN "closed" ELSE leg

NewWs ==
    [pc |-> "new", headers |-> {}, uri |-> <<>>, target |-> Unknown,
     response |-> "none", task |-> "none", result |-> Null, shook |-> FALSE,
     connects |-> <<>>, msg |-> <<>>, none |-> {},
     host |-> Null, ver |-> 0, rver |-> 0]

NewStream ==
    [sent |-> <<>>, q |-> <<>>, ended |-> FALSE, got |-> <<>>, leg |-> "none",
     stalled |-> FALSE]

InitWs ==
    /\ store = DiskConfig(1)
    /\ lock = IdleLock
    /\ disk = 1
    /\ chan = <<>>
    /\ sent = 0
    /\ wpc = "off"
    /\ loaded = <<>>
    /\ res = <<>>
    /\ hist = <<store>>
    /\ prevStore = store
    /\ badReload = FALSE
    /\ call = NoCall
    /\ up \in {{}, Ports}
    /\ reqs = <<>>
    /\ history = <<>>
    /\ conns = <<>>
    /\ run = Null
    /\ ws = NewWs
    /\ wire = [s \in Sides |-> NewStream]
    /\ log = <<>>

unusedByWs == <<lock, disk, chan, sent, wpc, loaded, res,
                prevStore, badReload, call, up, reqs, history, conns, run,
                log>>

(* A request reaches the handler with the target its host resolves to *)
WsArrive(host, headers, uri) ==
    /\ ws.pc = "new"
    /\ ws' = [ws EXCEPT !.pc = "handle", !.headers = headers, !.uri = uri,
                        !.target = Route(store, host),
                        !.host = host, !.ver = Len(hist)]
    /\ UNCHANGED <<wire, store, hist, unusedByWs>>

(* handle: not an upgrade request => None; upgrade(request, None).unwrap();
   tokio::spawn(serve_websocket(..)) *)
Handle ==
    /\ ws.pc = "handle"
    /\ IF ~IsUpgradeRequest(ws.headers)
       THEN /\ ws' = [ws EXCEPT !.pc = "returned", !.response = "None"]
            /\ UNCHANGED wire
       ELSE IF ~UpgradeOk(ws.headers)
       THEN /\ ws' = [ws EXCEPT !.pc = "panicked"]
            /\ UNCHANGED wire
       ELSE /\ ws' = [ws EXCEPT !.pc = "spawned", !.task = "handshake"]
            /\ wire' = [wire EXCEPT !["client"].leg = "open"]
    /\ UNCHANGED <<store, hist, unusedByWs>>

(* handle: Some(response.into_response()), the 101 response of the upgrade *)
HandleReturn ==
    /\ ws.pc = "spawned"
    /\ ws' = [ws EXCEPT !.pc = "returned", !.response = "101"]
    /\ UNCHANGED <<wire, store, hist, unusedByWs>>

\* The HyperWebsocket future resolves once the upgrade response returned by
\* the handler has been sent to the client
UpgradedAtSpawn(w) == TRUE
Upgraded(w) == w.pc = "returned"

\* `target` is moved into the spawned task: the task uses the value it was
\* given, not what the host resolves to now
HeldTargetLive(moved, current) == current
HeldTarget(moved, current) == moved

\* serve_websocket returns: its streams are dropped
Return(t, w, result) ==
    /\ ws' = [t EXCEPT !.task = "finished", !.result = result,
                       !.msg = <<>>, !.none = {}]
    /\ wire' = [s \in Sides |-> [w[s] EXCEPT !.leg = Dropped(@)]]

(* serve_websocket: let mut websocket_client = websocket.await?; *)
ClientHandshake(ok) ==
    /\ ws.task = "handshake"
    /\ Upgraded(ws)
    /\ IF ok
       THEN /\ ws' = [ws EXCEPT !.task = "target", !.shook = TRUE]
            /\ UNCHANGED wire
       ELSE Return(ws, wire, "Err")
    /\ UNCHANGED <<store, hist, unusedByWs>>

(* serve_websocket: let url = match target { .. };
   url.into_client_request()?; the headers are copied *)
MatchTarget ==
    /\ ws.task = "target"
    /\ IF ValidTarget(HeldTarget(ws.target, Route(store, ws.host)))
       THEN /\ ws' = [ws EXCEPT !.task = "connect"]
            /\ UNCHANGED wire
       ELSE Return(ws, wire, "Err")
    /\ UNCHANGED <<store, hist, unusedByWs>>

(* serve_websocket: connect_async(target_request).await? *)
ConnectAsync ==
    /\ ws.task = "connect"
    /\ LET url == UpstreamUrl(HeldTarget(ws.target, Route(store, ws.host)),
                              ws.uri)
       IN  IF url.port \in up
           THEN /\ ws' = [ws EXCEPT !.task = "select",
                                    !.connects = Append(@, url)]
                /\ wire' = [wire EXCEPT !["target"].leg = "open"]
           ELSE Return([ws EXCEPT !.connects = Append(@, url)], wire, "Err")
    /\ UNCHANGED <<store, hist, unusedByWs>>

\* The peer on `side` can still put items on its stream
PeerOpen(side) ==
    /\ wire[side].leg = "open"
    /\ ~wire[side].ended
    /\ ws.task # "finished"

(* A peer sends a message; after a close message it sends no more *)
PeerSend(side, kind) ==
    /\ PeerOpen(side)
    /\ Len(wire["client"].sent) + Len(wire["target"].sent) < MaxMsgs
    /\ \A k \in 1..Len(wire[side].sent) : wire[side].sent[k].kind # "close"
    /\ LET message == [kind |-> kind, from |-> side,
                        n |-> Len(wire[side].sent) + 1]
       IN  wire' = [wire EXCEPT ![side].sent = Append(@, message),
                                ![side].q = Append(@, Ok(message))]
    /\ UNCHANGED <<ws, store, hist, unusedByWs>>

(* A peer's stream ends: next() yields None once the items are read *)
PeerEnd(side) ==
    /\ PeerOpen(side)
    /\ wire' = [wire EXCEPT ![side].ended = TRUE]
    /\ UNCHANGED <<ws, store, hist, unusedByWs>>

(* A peer's connection breaks: next() yields an Err item *)
PeerError(side) ==
    /\ PeerOpen(side)
    /\ wire' = [wire EXCEPT ![side].ended = TRUE, ![side].q = Append(@, Err)]
    /\ UNCHANGED <<ws, store, hist, unusedByWs>>

(* A peer stops reading while a message is being sent to it: the send
   stays pending until the peer reads again or is gone *)
PeerStall(side) ==
    /\ PeerOpen(side)
    /\ ws.task = "send"
    /\ ws.msg[1].from = Other(side)
    /\ ~wire[side].stalled
    /\ wire' = [wire EXCEPT ![side].stalled = TRUE]
    /\ UNCHANGED <<ws, store, hist, unusedByWs>>

PeerResume(side) ==
    /\ wire[side].stalled
    /\ ws.task = "send"
    /\ wire' = [wire EXCEPT ![side].stalled = FALSE]
    /\ UNCHANGED <<ws, store, hist, unusedByWs>>

(* The watcher thread installs another configuration (config.rs, *config =)
   while the request or its tunnel is in progress *)
WsReload ==
    /\ ws.pc # "new"
    /\ ws.task # "finished"
    /\ store = DiskConfig(1)
    /\ store' = DiskConfig(2)
    /\ hist' = Append(hist, store')
    /\ UNCHANGED <<ws, wire, unusedByWs>>

(* select!: Some(message) = <side>.next() => the item is taken; message? *)
SelectSome(side) ==
    /\ ws.task = "select"
    /\ side \notin ws.none
    /\ wire[side].q # <<>>
    /\ LET item == Head(wire[side].q)
           w == [wire EXCEPT ![side].q = Tail(@)]
       IN  IF item.ok
           THEN /\ ws' = [ws EXCEPT !.task = "send", !.msg = item.value]
                /\ wire' = w
           ELSE Return(ws, w, "Err")
    /\ UNCHANGED <<store, hist, unusedByWs>>

(* select!: <side>.next() is None, the pattern fails and the branch is
   disabled for this select! *)
SelectNone(side) ==
    /\ ws.task = "select"
    /\ side \notin ws.none
    /\ wire[side].q = <<>>
    /\ wire[side].ended
    /\ ws' = [ws EXCEPT !.none = @ \cup {side}]
    /\ UNCHANGED <<wire, store, hist, unusedByWs>>

(* select!: else => break, when both branches are disabled; Ok(()) *)
SelectElse ==
    /\ ws.task = "select"
    /\ ws.none = Sides
    /\ Return(ws, wire, "Ok")
    /\ UNCHANGED <<store, hist, unusedByWs>>

(* <other side>.send(message).await?; then the next iteration of the loop *)
RelaySend(side) ==
    /\ ws.task = "send"
    /\ ws.msg # <<>>
    /\ ws.msg[1].from = Other(side)
    /\ wire[side].ended \/ ~wire[side].stalled
    /\ IF ~wire[side].ended
       THEN /\ wire' = [wire EXCEPT ![side].got = @ \o Relayed(ws.msg[1])]
            /\ ws' = [ws EXCEPT !.task = "select", !.msg = <<>>, !.none = {},
                                !.rver = Len(hist)]
       ELSE Return(ws, [wire EXCEPT ![side].stalled = FALSE], "Err")
    /\ UNCHANGED <<store, hist, unusedByWs>>

TaskNext ==
    \/ \E ok \in BOOLEAN : ClientHandshake(ok)
    \/ MatchTarget
    \/ ConnectAsync
    \/ \E side \in Sides : SelectSome(side)
    \/ \E side \in Sides : SelectNone(side)
    \/ SelectElse
    \/ \E side \in Sides : RelaySend(side)

NextWs ==
    \/ \E host \in WsHosts, headers \in WsHeaderSets, uri \in WsUris :
          WsArrive(host, headers, uri)
    \/ Handle
    \/ HandleReturn
    \/ TaskNext
    \/ \E side \in Sides : PeerStall(side)
    \/ \E side \in Sides : PeerResume(side)
    \/ WsReload
    \/ \E side \in Sides, kind \in Kinds : PeerSend(side, kind)
    \/ \E side \in Sides : PeerEnd(side)
    \/ \E side \in Sides : PeerError(side)

SpecWs == InitWs /\ [][NextWs]_vars

IsPrefix(a, b) == Len(a) <= Len(b) /\ SubSeq(b, 1, Len(a)) = a

\* The messages among the items waiting on a stream
RECURSIVE Messages(_)
Messages(q) ==
    IF q = <<>> THEN <<>>
    ELSE (IF Head(q).ok THEN Head(q).value ELSE <<>>) \o Messages(Tail(q))

\* The message the loop has taken from `side` and not yet sent on
InFlight(side) ==
    IF ws.msg # <<>> /\ ws.msg[1].from = side THEN ws.msg ELSE <<>>

Relaying == ws.task \in {"select", "send"}

(* C14: in each direction the messages delivered to one peer are a prefix
   of the messages the other peer sent, whatever their kinds; while the
   tunnel task is in its loop, every message a peer sent is delivered, in
   flight in the loop (at most one) or still waiting to be read, in the
   order sent and once. *)
C14_RelayedInOrder ==
    \A side \in Sides :
        /\ IsPrefix(wire[Other(side)].got, wire[side].sent)
        /\ Relaying =>
              wire[side].sent =
                  wire[Other(side)].got \o InFlight(side) \o Messages(wire[side].q)

\* Both peers have been delivered a message of the other, and one of the
\* delivered messages is a ping, a pong or a close.
C14_Witness ==
    /\ Relaying
    /\ wire["client"].got # <<>>
    /\ wire["target"].got # <<>>
    /\ wire["target"].got = wire["client"].sent
    /\ wire["target"].got[1].kind \in {"ping", "pong", "close"}

(* C15: once the loop has seen the end of one side's stream, the tunnel
   task can go on to finish by itself: it does not wait for the other side
   to send, end or fail. *)
C15_EndedStreamEndsTunnel ==
    (ws.task = "select" /\ ws.none # {}) => ENABLED TaskNext

\* connect_async has returned Ok: the upstream leg was opened
UpstreamOpened ==
    ws.connects # <<>> /\ ws.connects[Len(ws.connects)].port \in up

(* C16: when the tunnel task has ended, with Ok or with any error, the
   client leg is closed, the upstream leg is closed if it was opened and was
   never opened otherwise, and no message is left in the hands of the loop;
   the legs are closed only by the end of the task. *)
C16_EndedTunnelClosesLegs ==
    /\ ws.task = "finished" =>
          /\ wire["client"].leg = "closed"
          /\ wire["target"].leg = (IF UpstreamOpened THEN "closed" ELSE "none")
          /\ ws.msg = <<>>
    /\ \A side \in Sides : wire[side].leg = "closed" => ws.task = "finished"

\* A tunnel that relayed a message has ended with an error and both its
\* legs are closed.
C16_Witness ==
    /\ ws.task = "finished"
    /\ ws.result = "Err"
    /\ wire["client"].got # <<>>
    /\ wire["client"].leg = "closed"
    /\ wire["target"].leg = "closed"

(* C17: when the target of an upgrade request is the dashboard or unknown,
   the tunnel task never attempts an upstream connect and never enters the
   relay loop, and once past the client handshake it has ended with an
   error; every upstream connect is made for a Socket target, to its
   address. *)
C17_InvalidTargetEndsTunnel ==
    /\ ws.target.tag # "Socket" =>
          /\ ws.task \notin {"connect", "select", "send"}
          /\ ws.connects = <<>>
          /\ wire["target"].leg = "none"
          /\ wire["target"].got = <<>>
          /\ ws.task = "finished" => ws.result = "Err"
    /\ \A k \in 1..Len(ws.connects) :
          /\ ws.target.tag = "Socket"
          /\ ws.connects[k].ip = ws.target.ip
          /\ ws.connects[k].port = ws.target.port

\* An upgrade request for the dashboard host: the client handshake was
\* completed and the task has ended with an error, without upstream connect.
C17_Witness ==
    /\ ws.target.tag = "Incipit"
    /\ ws.shook
    /\ ws.task = "finished"
    /\ ws.result = "Err"
    /\ ws.connects = <<>>

\* The request carries both headers of a websocket upgrade
AsksUpgrade ==
    ConnectionUpgrade \in ws.headers /\ UpgradeWebsocket \in ws.headers

(* C18: for a request that is not a websocket upgrade request the handler
   returns None and has done nothing else: no upgrade response, no tunnel
   task, no open leg, no upstream connect; a tunnel task exists only for an
   upgrade request. *)
C18_NonUpgradeIsNone ==
    /\ (ws.pc \notin {"new", "handle"} /\ ~AsksUpgrade) =>
          /\ ws.pc = "returned"
          /\ ws.response = "None"
          /\ ws.task = "none"
          /\ ~ws.shook
          /\ ws.connects = <<>>
          /\ \A side \in Sides : wire[side] = NewStream
    /\ ws.task # "none" => AsksUpgrade

\* A request with a Connection: upgrade header but no Upgrade: websocket
\* header has been answered None.
C18_Witness ==
    /\ ws.headers = {ConnectionUpgrade}
    /\ ws.pc = "returned"
    /\ ws.response = "None"
    /\ ws.task = "none"

\* The path and query of the inbound request as a request target; a target
\* without path is written "/" on the wire
InboundPathAndQuery == IF ws.uri = <<>> THEN <<"/">> ELSE ws.uri

(* C19: the URL of every upstream connect is ws://addr followed by the path
   and query of the inbound request, character for character. *)
C19_UpstreamUrlKeepsPath ==
    \A k \in 1..Len(ws.connects) :
        /\ ws.connects[k].scheme = "ws"
        /\ ws.connects[k].ip = ws.target.ip
        /\ ws.connects[k].port = ws.target.port
        /\ ws.connects[k].path_and_query = InboundPathAndQuery

(* C20: when the configuration carries no file path, run goes on to serve
   with the initial configuration, without panicking, and the store keeps
   its initial value. *)
C20_RunsWithoutConfigPath ==
    hist[1].file_path = Null =>
        /\ run # "panicked"
        /\ wpc \in {"watch", "off"}
        /\ store = hist[1]

-----------------------------------------------------------------------------
(* Further properties of Spec *)

\* The message of the error a failed reload gives:
\* Config::new().wrap_err("Failed to reload config")
FailedToReload == "Failed to reload config"

(* C21: when a reload triggered by a change event of the tracked file has
   failed, the log has an entry that reports the failure. *)
C21_FailedReloadIsLogged ==
    wpc = "failed" => \E k \in 1..Len(log) : log[k] = FailedToReload

(* C23: while the watcher thread re-reads and parses the configuration
   file it does not hold the write lock, so a resolve call waiting to read
   is not kept waiting by the load. *)
C23_NoWriteLockDuringLoad ==
    wpc = "load" =>
        /\ ~lock.writer
        /\ \A r \in Resolvers : res[r].pc = "read" => ReadLockable(lock)

\* The thread is about to receive an event of another file of the directory
OtherEventNext == wpc = "recv" /\ chan # <<>> /\ Head(chan) = "other"

(* C26: a step taken when the next event is one of another file leaves the
   store unchanged, starts no load and takes no lock; the thread goes on to
   lock and load only on receiving an event of the tracked file, and the
   store changes only in the assignment that follows such a load. *)
C26_OtherEventsIgnored ==
    [][ /\ OtherEventNext =>
              /\ wpc' = "recv"
              /\ store' = store
              /\ loaded' = loaded
              /\ lock'.writer = lock.writer
              /\ hist' = hist
        /\ (wpc # "lock" /\ wpc' = "lock") =>
              (chan # <<>> /\ Head(chan) = "match" /\ chan' = Tail(chan))
        /\ store' # store => wpc = "assign"
      ]_vars

\* All events sent were received, none was an error or led to a load: the
\* thread is waiting for the next one and the store was never replaced.
C26_Witness ==
    /\ sent = MaxEvents
    /\ chan = <<>>
    /\ wpc = "recv"
    /\ disk = 1
    /\ Len(hist) = 1
    /\ store = hist[1]
    /\ ~lock.writer

-----------------------------------------------------------------------------
(* Further properties of SpecHttp *)

\* The response the request's own host and backend determine
ExpectedResponse(i) ==
    LET ports == ConfiguredPorts(reqs[i].host)
    IN  IF ports = {} THEN IncipitError
        ELSE LET p == CHOOSE q \in ports : TRUE
             IN  IF p \in up THEN Handler(p, reqs[i].request.path)
                 ELSE IncipitError

(* C22: whatever errors other requests have run into, the server goes on
   serving, the stored configuration is the one it started with, and every
   completed request has the response its own host and backend determine. *)
C22_ErrorsStayLocal ==
    /\ run = "serve"
    /\ store = hist[1]
    /\ \A i \in ReqIds :
          reqs[i].pc = "done" => reqs[i].response = ExpectedResponse(i)

\* One request has failed on an unknown host or a refused connect, and
\* another one, which arrived after that failure or ran beside it, has the
\* response of its backend.
C22_Witness ==
    \E i, j \in ReqIds :
        /\ i # j
        /\ reqs[i].pc = "done" /\ reqs[i].error # NoError
        /\ reqs[j].pc = "done" /\ reqs[j].error = NoError
        /\ reqs[j].response.status = 200

\* The task is connecting to, handshaking with or forwarding to a backend
InNetworkIO(i) == reqs[i].pc \in {"connect", "handshake", "send", "await"}

(* C24: a request task that is connecting to, handshaking with or
   forwarding to a backend holds no read guard of the configuration lock,
   and while tasks are in that phase the write lock can be taken. *)
C24_NoLockDuringNetworkIO ==
    /\ \A i \in ReqIds : InNetworkIO(i) => i \notin lock.readers
    /\ (\E i \in ReqIds : InNetworkIO(i)) => WriteLockable(lock)

\* Two requests are waiting for their backends' responses and the write
\* lock is free.
C24_Witness ==
    /\ \A i \in ReqIds : reqs[i].pc = "await"
    /\ WriteLockable(lock)

-----------------------------------------------------------------------------
(* Further properties of SpecWs *)

(* C25: while the send of a message to one side is stalled, a message that
   has arrived from that side is still taken up by the tunnel task: the
   task can act without the stalled side reading. *)
C25_DirectionsIndependent ==
    \A side \in Sides :
        ( /\ ws.task = "send"
          /\ wire[side].stalled
          /\ ~wire[side].ended
          /\ wire[side].q # <<>> ) => ENABLED TaskNext

\* What the host of the request resolved to when the request arrived
ResolvedAtArrival == Route(hist[ws.ver], ws.host)

(* C27: the target the tunnel task works with is the one its host resolved
   to when the request arrived, whatever configuration has been installed
   since: every upstream connect goes to that address, and only a Socket
   target is ever connected or relayed to. *)
C27_ReloadKeepsDecision ==
    ws.pc # "new" =>
        /\ ws.target = ResolvedAtArrival
        /\ \A k \in 1..Len(ws.connects) :
              /\ ws.connects[k].ip = ResolvedAtArrival.ip
              /\ ws.connects[k].port = ResolvedAtArrival.port
        /\ (ws.connects # <<>> \/ ws.task \in {"connect", "select", "send"}) =>
              ResolvedAtArrival.tag = "Socket"

\* A tunnel set up under the first configuration has relayed a message to
\* its backend after the second one was installed, under which its host no
\* longer resolves to that backend.
C27_Witness ==
    /\ ws.ver = 1
    /\ Len(hist) = 2
    /\ Route(store, ws.host) # ws.target
    /\ Relaying
    /\ ws.rver = 2
    /\ wire["target"].got # <<>>

(* C28: for every request the handler returns, either "not handled" or a
   response; it never panics. *)
C28_HandlerNeverPanics ==
    /\ ws.pc # "panicked"
    /\ ws.pc = "returned" => ws.response \in {"None", "101"}

(* C29: the upgrade response has been returned by the handler before the
   tunnel task validates the target or attempts the upstream connect, and
   every upgrade request the handler returns from gets it, whatever its
   target and whether or not the backend is reachable. *)
C29_ResponseBeforeUpstream ==
    /\ (ws.connects # <<>> \/ ws.task \in {"target", "connect", "select", "send"}
         \/ ws.shook) =>
           (ws.pc = "returned" /\ ws.response = "101")
    /\ (ws.pc = "returned" /\ AsksUpgrade) => ws.response = "101"

\* The handler has returned the upgrade response for a request whose target
\* is Unknown while the tunnel task has not yet done anything.
C29_Witness ==
    /\ ws.pc = "returned"
    /\ ws.response = "101"
    /\ ws.target.tag = "Unknown"
    /\ ws.task = "handshake"
    /\ ws.connects = <<>>

=============================================================================
